---------------------------- MODULE Spec2Model ----------------------------
(***************************************************************************)
(* clidle: a Wordle game served to a local terminal or over SSH.           *)
(*                                                                         *)
(* The module models the SQL-backed version of the program:                *)
(*   src/model.go  lines 467-968   the bubbletea model (one per session)   *)
(*   src/query.sql                 the store queries (shared ledger)       *)
(*   src/main.go                   getModel / getStore / runCLI / runServer*)
(*                                                                         *)
(* Bytes are ASCII codes, a word is a sequence of numChars bytes, the      *)
(* model struct is a record with the struct's field names, and each Go     *)
(* method is an operator from the struct (and the ledger) to the struct    *)
(* (and the ledger) after the call.                                        *)
(***************************************************************************)
EXTENDS Integers, Sequences, FiniteSets, TLC

\* ------------------------------------------------------------ constants

\* src/model.go:485  _numGuesses
numGuesses == 6
\* src/model.go:487  _numChars
numChars == 5

\* src/model.go:926-929  keyState iota
keyStateUnselected == 0
keyStateAbsent == 1
keyStatePresent == 2
keyStateCorrect == 3

Cols == 1..numChars
Rows == 1..numGuesses

\* ---------------------------------------------------------- byte helpers

\* isAsciiUpper checks if a rune is between A-Z.
isAsciiUpper(r) == 65 <= r /\ r <= 90

\* toAsciiUpper converts a rune to uppercase if it is between a-z.
toAsciiUpper(r) == IF 97 <= r /\ r <= 122 THEN r - (97 - 65) ELSE r

\* bytes.IndexByte: the 0-based index of the first c in s, or -1.
IndexByte(s, c) ==
  IF \E i \in 1..Len(s) : s[i] = c
    THEN (CHOOSE i \in 1..Len(s) : s[i] = c /\ \A j \in 1..(i-1) : s[j] # c) - 1
    ELSE -1

\* Go's builtin max on keyState.
max(a, b) == IF a >= b THEN a ELSE b

\* ------------------------------------------------- the grid row evaluation

\* The same loop without the "continue" on the exact matches.
RECURSIVE markPresentNoSkip(_, _, _)
markPresentNoSkip(i, word, st) ==
  IF i >= numChars THEN st
  ELSE LET foundIdx == IndexByte(st.letters, word[i+1]) IN
       IF foundIdx # -1
         THEN markPresentNoSkip(i+1, word,
                [keyStates |-> [st.keyStates EXCEPT ![i+1] = keyStatePresent],
                 letters   |-> [st.letters EXCEPT ![foundIdx+1] = 0]])
         ELSE markPresentNoSkip(i+1, word, st)

\* The third loop of viewGridRowFilled ("Mark keyStatusPresent"), from
\* 0-based index i on; st is [keyStates, letters].
RECURSIVE markPresent(_, _, _)
markPresent(i, word, st) ==
  IF i >= numChars THEN st
  ELSE IF st.keyStates[i+1] = keyStateCorrect THEN markPresent(i+1, word, st)
  ELSE LET foundIdx == IndexByte(st.letters, word[i+1]) IN
       IF foundIdx # -1
         THEN markPresent(i+1, word,
                [keyStates |-> [st.keyStates EXCEPT ![i+1] = keyStatePresent],
                 letters   |-> [st.letters EXCEPT ![foundIdx+1] = 0]])
         ELSE markPresent(i+1, word, st)

\* The same loop without the consumption of the matched answer letter.
RECURSIVE markPresentNoConsume(_, _, _)
markPresentNoConsume(i, word, st) ==
  IF i >= numChars THEN st
  ELSE IF st.keyStates[i+1] = keyStateCorrect
         THEN markPresentNoConsume(i+1, word, st)
  ELSE LET foundIdx == IndexByte(st.letters, word[i+1]) IN
       IF foundIdx # -1
         THEN markPresentNoConsume(i+1, word,
                [keyStates |-> [st.keyStates EXCEPT ![i+1] = keyStatePresent],
                 letters   |-> st.letters])
         ELSE markPresentNoConsume(i+1, word, st)

\* The first two loops without the zeroing of the matched answer letters.
markCorrectKeepsLetters(answer, word) ==
  [keyStates |-> [i \in Cols |->
                    IF word[i] = answer[i] THEN keyStateCorrect
                                           ELSE keyStateAbsent],
   letters   |-> answer]

\* The first two loops of viewGridRowFilled: all Absent, then the exact
\* matches Correct with their answer letter zeroed in the copy.
markCorrect(answer, word) ==
  [keyStates |-> [i \in Cols |->
                    IF word[i] = answer[i] THEN keyStateCorrect
                                           ELSE keyStateAbsent],
   letters   |-> [i \in Cols |-> IF word[i] = answer[i] THEN 0 ELSE answer[i]]]

\* viewGridRowFilled without the consumption in its last loop.
viewGridRowFilledNoConsume(answer, word) ==
  markPresentNoConsume(0, word, markCorrect(answer, word)).keyStates

\* viewGridRowFilled: the keyStates array the row is rendered with.
viewGridRowFilled(answer, word) ==
  markPresent(0, word, markCorrect(answer, word)).keyStates


\* ------------------------------------------------------------ dictionary
\* The Dictionary implementation (EnglishDictionary) is not part of the
\* sources; it is modelled from its contract: IsWord accepts the words of a
\* fixed list, GetRandomCommonWord returns an uppercase word of numChars
\* letters out of a sub-list of it.

CRANE == <<67, 82, 65, 78, 69>>
CRATE == <<67, 82, 65, 84, 69>>
SPEED == <<83, 80, 69, 69, 68>>
ERASE == <<69, 82, 65, 83, 69>>
TRACE == <<84, 82, 65, 67, 69>>
TRACT == <<84, 82, 65, 67, 84>>
\* not a word
TRACX == <<84, 82, 65, 67, 88>>

Words == {CRANE, CRATE, SPEED, TRACE, TRACT}
CommonWords == {CRANE, TRACE, TRACT}

IsWord(w) == w \in Words

\* ---------------------------------------------------------------- state

Sessions == {1, 2}

VARIABLES
  m,      \* m[s]: the model struct of session s
  pc,     \* pc[s]: "new" (constructed), "run" (event loop), "quit"
  ticks,  \* ticks[s]: tea.Tick commands of session s not yet delivered
  db,     \* the store: tables game and guess, a row's id is its index
  last,   \* last[s]: the last message of session s, [msg, io]: its kind
          \* and the store calls its handler made
  hist,   \* the games that ended, in order: [s, won, k]
  nfail,  \* number of store calls that failed so far
  ev,     \* the row evaluation under test: [answer, word, keyStates]
  typedAt \* typedAt[s][r][i]: the letter the player of session s typed
          \* last at column i of row r since the game started, 0 if none
          \* (recorded under SpecRow only)

vars == <<m, pc, ticks, db, last, hist, nfail, ev, typedAt>>

zeroWord == [i \in Cols |-> 0]

\* A Go map[byte]keyState: a function on the keys present; reading a key
\* that is absent yields the zero value, keyStateUnselected.
emptyMap == [k \in {} |-> keyStateUnselected]
mapGet(ks, k) == IF k \in DOMAIN ks THEN ks[k] ELSE keyStateUnselected
mapSet(ks, k, v) == [x \in DOMAIN ks \cup {k} |-> IF x = k THEN v ELSE ks[x]]

\* newModel: every field but keyStates has Go's zero value.
newModel ==
  [gameID |-> 0, gameOver |-> FALSE, score |-> 0, answer |-> zeroWord,
   status |-> <<>>, statusPending |-> 0,
   windowHeight |-> 0, windowWidth |-> 0,
   grid |-> [r \in Rows |-> zeroWord], gridRow |-> 0, gridCol |-> 0,
   keyStates |-> emptyMap]

emptyDb == [game |-> <<>>, guess |-> <<>>]

\* ---------------------------------------------------------------- store

\* CreateGame: INSERT INTO game (answer) VALUES (?) RETURNING *
CreateGame(d, answer) ==
  [db |-> [d EXCEPT !.game = Append(@, [answer |-> answer])],
   id |-> Len(d.game) + 1]

\* CreateGuess: INSERT INTO guess (game_id, guess) VALUES (?, ?) RETURNING *
CreateGuess(d, gameID, guess) ==
  [d EXCEPT !.guess = Append(@, [game_id |-> gameID, guess |-> guess])]

\* The rows of game g in the query's double join: a pair (victory, guess)
\* of guess rows of g, the first one equal to the answer.
joined(d, g) ==
  {vx \in (1..Len(d.guess)) \X (1..Len(d.guess)) :
      /\ d.guess[vx[1]].game_id = g
      /\ d.guess[vx[1]].guess = d.game[g].answer
      /\ d.guess[vx[2]].game_id = g}

RECURSIVE sumScores(_, _)
sumScores(d, g) ==
  IF g = 0 THEN 0
  ELSE sumScores(d, g - 1) +
       (IF joined(d, g) = {} THEN 0 ELSE 10 * (11 - Cardinality(joined(d, g))))

\* GetTotalScore: SUM(score) over the games that have a joined row; the
\* caller reads NULL (no such game) as 0 through score.Float64.
GetTotalScore(d) == sumScores(d, Len(d.game))

\* ---------------------------------------------------------- model methods
\* A method that talks to the store or returns a tea.Cmd yields a record:
\*   m    the struct after the call       db   the store after the call
\*   io   the store calls it made         cmd  "nil", "tick" or "quit"
\*   end  "win" / "loss" when the call ended the game, else "none"
\* The outcome of each store call (success, or an error such as the
\* 5 s context deadline) is an input: ok = TRUE / FALSE.

call(op, ok) == [op |-> op, ok |-> ok]

statusScore(score) == <<"Score: ", score>>
statusShort == <<"Your guess must be a 5-letter word.">>
statusInvalid == <<"That's not a valid word.">>
statusWin == <<"You win!">>
statusLoss(answer) == <<"The word was ", answer, ". Better luck next time!">>

\* resetStatus leaving the status message as it is.
resetStatusKeeps(mm) == mm

\* resetStatus immediately resets the status message to its default value.
resetStatus(mm) == [mm EXCEPT !.status = statusScore(mm.score)]

\* setStatus scheduling the reset without counting it.
setStatusNoCount(mm, msg, duration) ==
  [m   |-> [mm EXCEPT !.status = msg],
   cmd |-> IF duration > 0 THEN "tick" ELSE "nil"]

\* setStatus sets the status message; with a positive duration it counts a
\* pending reset and returns the tea.Tick that will deliver msgResetStatus.
setStatus(mm, msg, duration) ==
  [m   |-> [mm EXCEPT !.status = msg,
                      !.statusPending = IF duration > 0 THEN @ + 1 ELSE @],
   cmd |-> IF duration > 0 THEN "tick" ELSE "nil"]

\* updateScore fetches the current total score from the database; on an
\* error the score field keeps its value.
updateScore(mm, d, ok) ==
  [m  |-> IF ok THEN [mm EXCEPT !.score = GetTotalScore(d)] ELSE mm,
   io |-> <<call("GetTotalScore", ok)>>]

\* saveGuessGame not returning the error of CreateGame.
saveGuessGameSwallowsError(mm, d, okGame) ==
  IF mm.gameID # 0 THEN [m |-> mm, db |-> d, io |-> <<>>, err |-> FALSE]
  ELSE IF ~okGame
    THEN [m |-> mm, db |-> d, io |-> <<[op |-> "CreateGame", ok |-> FALSE]>>,
          err |-> FALSE]
  ELSE [m |-> [mm EXCEPT !.gameID = Len(d.game) + 1],
        db |-> [d EXCEPT !.game = Append(@, [answer |-> mm.answer])],
        io |-> <<[op |-> "CreateGame", ok |-> TRUE]>>, err |-> FALSE]

\* saveGuessGame creating a game row whether or not the struct has a game id.
saveGuessGameAlways(mm, d, okGame) ==
  IF ~okGame
    THEN [m |-> mm, db |-> d, io |-> <<[op |-> "CreateGame", ok |-> FALSE]>>,
          err |-> TRUE]
  ELSE [m |-> [mm EXCEPT !.gameID = Len(d.game) + 1],
        db |-> [d EXCEPT !.game = Append(@, [answer |-> mm.answer])],
        io |-> <<[op |-> "CreateGame", ok |-> TRUE]>>, err |-> FALSE]

\* saveGuess, first half ("Create a new game if one doesn't exist"): the
\* CreateGame call and the assignment of the game id; err = TRUE is the
\* early return.
saveGuessGame(mm, d, okGame) ==
  IF mm.gameID # 0 THEN [m |-> mm, db |-> d, io |-> <<>>, err |-> FALSE]
  ELSE IF ~okGame
    THEN [m |-> mm, db |-> d, io |-> <<call("CreateGame", FALSE)>>,
          err |-> TRUE]
  ELSE LET game == CreateGame(d, mm.answer)
       IN  [m |-> [mm EXCEPT !.gameID = game.id], db |-> game.db,
            io |-> <<call("CreateGame", TRUE)>>, err |-> FALSE]

\* saveGuess, second half: the CreateGuess call with the struct's game id.
saveGuessGuess(mm, d, guess, okGuess) ==
  IF ~okGuess
    THEN [m |-> mm, db |-> d, io |-> <<call("CreateGuess", FALSE)>>,
          err |-> TRUE]
    ELSE [m |-> mm, db |-> CreateGuess(d, mm.gameID, guess),
          io |-> <<call("CreateGuess", TRUE)>>, err |-> FALSE]

\* saveGuess: creates the game row when the struct has no game id yet, then
\* the guess row; returns at the first error.
saveGuess(mm, d, guess, okGame, okGuess) ==
  LET g == saveGuessGame(mm, d, okGame)
      c == saveGuessGuess(g.m, g.db, guess, okGuess)
  IN  IF g.err THEN g ELSE [c EXCEPT !.io = g.io \o @]

\* updateKeyStates assigning the new state instead of the maximum.
RECURSIVE updateKeyStatesAssign(_, _, _, _)
updateKeyStatesAssign(idx, guess, answer, st) ==
  IF idx >= numChars THEN st
  ELSE LET key == guess[idx+1]
           keyState == IF key = answer[idx+1] THEN keyStateCorrect
                       ELSE IF IndexByte(answer, key) # -1 THEN keyStatePresent
                       ELSE keyStateAbsent
       IN updateKeyStatesAssign(idx+1, guess, answer,
            [keyStates |-> mapSet(st.keyStates, key, keyState),
             success   |-> st.success /\ key = answer[idx+1]])

\* The loop "Update the state of the used letters" of doAcceptGuess, from
\* 0-based index idx on; st is [keyStates, success].
RECURSIVE updateKeyStates(_, _, _, _)
updateKeyStates(idx, guess, answer, st) ==
  IF idx >= numChars THEN st
  ELSE LET key == guess[idx+1]
           keyState == IF key = answer[idx+1] THEN keyStateCorrect
                       ELSE IF IndexByte(answer, key) # -1 THEN keyStatePresent
                       ELSE keyStateAbsent
       IN updateKeyStates(idx+1, guess, answer,
            [keyStates |-> mapSet(st.keyStates, key,
                                  max(keyState, mapGet(st.keyStates, key))),
             success   |-> st.success /\ key = answer[idx+1]])

\* doWin is called when the user has guessed the word correctly.
doWinKeepsPlaying(mm, d, ok) ==
  LET u == updateScore(mm, d, ok)
      t == setStatus(u.m, statusWin, 0)
  IN  [m |-> t.m, db |-> d, io |-> u.io, cmd |-> t.cmd, end |-> "win"]

\* doWin is called when the user has guessed the word correctly.
doWin(mm, d, ok) ==
  LET u == updateScore([mm EXCEPT !.gameOver = TRUE], d, ok)
      t == setStatus(u.m, statusWin, 0)
  IN  [m |-> t.m, db |-> d, io |-> u.io, cmd |-> t.cmd, end |-> "win"]

\* doLoss leaving the game in progress.
doLossKeepsPlaying(mm, d, ok) ==
  LET u == updateScore(mm, d, ok)
      t == setStatus(u.m, statusLoss(mm.answer), 0)
  IN  [m |-> t.m, db |-> d, io |-> u.io, cmd |-> t.cmd, end |-> "loss"]

\* doLoss is called when the user has used up all their guesses.
doLoss(mm, d, ok) ==
  LET u == updateScore([mm EXCEPT !.gameOver = TRUE], d, ok)
      t == setStatus(u.m, statusLoss(mm.answer), 0)
  IN  [m |-> t.m, db |-> d, io |-> u.io, cmd |-> t.cmd, end |-> "loss"]

\* guessVerdict without the dictionary lookup.
guessVerdictNoDictionary(mm) ==
  IF mm.gameOver THEN "over"
  ELSE IF mm.gridCol # numChars THEN "short"
  ELSE "accept"

\* guessVerdict without the length check.
guessVerdictNoLength(mm) ==
  IF mm.gameOver THEN "over"
  ELSE IF ~IsWord(mm.grid[mm.gridRow + 1]) THEN "invalid"
  ELSE "accept"

\* doAcceptGuess up to its two early returns: "over" (nothing happens),
\* "short", "invalid" (a status is set), or "accept".
guessVerdict(mm) ==
  IF mm.gameOver THEN "over"
  ELSE IF mm.gridCol # numChars THEN "short"
  ELSE IF ~IsWord(mm.grid[mm.gridRow + 1]) THEN "invalid"
  ELSE "accept"

\* acceptGuessFinish testing for the last row before testing for success.
acceptGuessFinishLossFirst(mm, d, guess, okScore) ==
  LET ks == updateKeyStates(0, guess, mm.answer,
              [keyStates |-> mm.keyStates, success |-> TRUE])
      m1 == [mm EXCEPT !.keyStates = ks.keyStates,
                       !.gridRow = @ + 1, !.gridCol = 0]
  IN  IF m1.gridRow = numGuesses THEN doLoss(m1, d, okScore)
      ELSE IF ks.success THEN doWin(m1, d, okScore)
      ELSE [m |-> m1, db |-> d, io |-> <<>>, cmd |-> "nil", end |-> "none"]

\* doAcceptGuess after saveGuess returned: the key states, the cursor, and
\* the end of the game.
acceptGuessFinish(mm, d, guess, okScore) ==
  LET ks == updateKeyStates(0, guess, mm.answer,
              [keyStates |-> mm.keyStates, success |-> TRUE])
      m1 == [mm EXCEPT !.keyStates = ks.keyStates,
                       !.gridRow = @ + 1, !.gridCol = 0]
  IN  IF ks.success THEN doWin(m1, d, okScore)
      ELSE IF m1.gridRow = numGuesses THEN doLoss(m1, d, okScore)
      ELSE [m |-> m1, db |-> d, io |-> <<>>, cmd |-> "nil", end |-> "none"]

\* doAcceptGuess giving up the guess when saveGuess returns an error.
doAcceptGuessAbortOnError(mm, d, oks) ==
  LET verdict == guessVerdict(mm)
      guess == mm.grid[mm.gridRow + 1]
  IN  CASE verdict = "over" ->
             [m |-> mm, db |-> d, io |-> <<>>, cmd |-> "nil", end |-> "none"]
        [] verdict = "short" ->
             LET t == setStatus(mm, statusShort, 1)
             IN [m |-> t.m, db |-> d, io |-> <<>>, cmd |-> t.cmd, end |-> "none"]
        [] verdict = "invalid" ->
             LET t == setStatus(mm, statusInvalid, 1)
             IN [m |-> t.m, db |-> d, io |-> <<>>, cmd |-> t.cmd, end |-> "none"]
        [] OTHER ->
             LET sv == saveGuess(mm, d, guess, oks.game, oks.guess)
                 f  == acceptGuessFinish(sv.m, sv.db, guess, oks.score)
             IN  IF sv.err
                   THEN [m |-> sv.m, db |-> sv.db, io |-> sv.io, cmd |-> "nil",
                         end |-> "none"]
                   ELSE [f EXCEPT !.io = sv.io \o @]

\* doAcceptGuess accepts the current word. oks = [game, guess, score]: the
\* outcomes of the store calls it may make.
doAcceptGuess(mm, d, oks) ==
  LET verdict == guessVerdict(mm)
      guess == mm.grid[mm.gridRow + 1]
  IN  CASE verdict = "over" ->
             [m |-> mm, db |-> d, io |-> <<>>, cmd |-> "nil", end |-> "none"]
        [] verdict = "short" ->
             LET t == setStatus(mm, statusShort, 1)
             IN [m |-> t.m, db |-> d, io |-> <<>>, cmd |-> t.cmd, end |-> "none"]
        [] verdict = "invalid" ->
             LET t == setStatus(mm, statusInvalid, 1)
             IN [m |-> t.m, db |-> d, io |-> <<>>, cmd |-> t.cmd, end |-> "none"]
        [] OTHER ->
             LET sv == saveGuess(mm, d, guess, oks.game, oks.guess)
                 f  == acceptGuessFinish(sv.m, sv.db, guess, oks.score)
             IN  [f EXCEPT !.io = sv.io \o @]

\* doAcceptChar without the test of gameOver.
doAcceptCharWhenOver(mm, ch) ==
  IF ~(mm.gridRow < numGuesses /\ mm.gridCol < numChars)
    THEN mm
  ELSE IF isAsciiUpper(toAsciiUpper(ch))
    THEN [mm EXCEPT !.grid[mm.gridRow + 1][mm.gridCol + 1] = toAsciiUpper(ch),
                    !.gridCol = @ + 1]
  ELSE mm

\* doAcceptChar without the test that the character is a letter.
doAcceptCharAnyRune(mm, ch) ==
  IF mm.gameOver \/ ~(mm.gridRow < numGuesses /\ mm.gridCol < numChars)
    THEN mm
  ELSE [mm EXCEPT !.grid[mm.gridRow + 1][mm.gridCol + 1] = toAsciiUpper(ch),
                  !.gridCol = @ + 1]

\* doAcceptChar adds one input character to the current word.
doAcceptChar(mm, ch) ==
  IF mm.gameOver \/ ~(mm.gridRow < numGuesses /\ mm.gridCol < numChars)
    THEN mm
  ELSE IF isAsciiUpper(toAsciiUpper(ch))
    THEN [mm EXCEPT !.grid[mm.gridRow + 1][mm.gridCol + 1] = toAsciiUpper(ch),
                    !.gridCol = @ + 1]
  ELSE mm

\* doDeleteChar without the test of the column.
doDeleteCharUnchecked(mm) ==
  IF ~mm.gameOver THEN [mm EXCEPT !.gridCol = @ - 1] ELSE mm

\* doDeleteChar deletes the last character in the current word.
doDeleteChar(mm) ==
  IF ~mm.gameOver /\ mm.gridCol > 0 THEN [mm EXCEPT !.gridCol = @ - 1] ELSE mm

\* doResize updates the size of the window.
doResize(mm, width, height) ==
  [mm EXCEPT !.windowHeight = height, !.windowWidth = width]

\* doRestart leaving the key states as they are.
doRestartKeepsKeys(mm, d, answer, ok) ==
  LET m1 == [mm EXCEPT !.gameID = 0, !.gameOver = FALSE, !.answer = answer,
                       !.gridCol = 0, !.gridRow = 0]
      u  == updateScore(m1, d, ok)
  IN  [m |-> resetStatus(u.m), db |-> d, io |-> u.io, cmd |-> "nil",
       end |-> "none"]

\* doRestart going on with the game row of the game it abandons.
doRestartKeepsGame(mm, d, answer, ok) ==
  LET m1 == [mm EXCEPT !.gameOver = FALSE, !.answer = answer,
                       !.gridCol = 0, !.gridRow = 0,
                       !.keyStates = emptyMap]
      u  == updateScore(m1, d, ok)
  IN  [m |-> resetStatus(u.m), db |-> d, io |-> u.io, cmd |-> "nil",
       end |-> "none"]

\* doRestart clearing the count of pending status resets as well.
doRestartClearsPending(mm, d, answer, ok) ==
  LET m1 == [mm EXCEPT !.gameID = 0, !.gameOver = FALSE, !.answer = answer,
                       !.gridCol = 0, !.gridRow = 0,
                       !.keyStates = emptyMap, !.statusPending = 0]
      u  == updateScore(m1, d, ok)
  IN  [m |-> resetStatus(u.m), db |-> d, io |-> u.io, cmd |-> "nil",
       end |-> "none"]

\* doRestart resets the game state and starts a new game; answer is the
\* word GetRandomCommonWord returned.
doRestart(mm, d, answer, ok) ==
  LET m1 == [mm EXCEPT !.gameID = 0, !.gameOver = FALSE, !.answer = answer,
                       !.gridCol = 0, !.gridRow = 0,
                       !.keyStates = emptyMap]
      u  == updateScore(m1, d, ok)
  IN  [m |-> resetStatus(u.m), db |-> d, io |-> u.io, cmd |-> "nil",
       end |-> "none"]

\* A method that touches only the struct, as a result record.
local(mm, d) == [m |-> mm, db |-> d, io |-> <<>>, cmd |-> "nil", end |-> "none"]

\* Update is called when a message is received. msg is the message, in the
\* inputs the handler may draw: in.answer the word GetRandomCommonWord
\* would return, in.oks the outcomes of the store calls.
Update(mm, d, msg, in) ==
  CASE msg.kind = "msgResetStatus" ->
         LET m1 == [mm EXCEPT !.statusPending = @ - 1]
         IN  local(IF m1.statusPending = 0 THEN resetStatus(m1) ELSE m1, d)
    [] msg.kind = "KeyMsg" ->
         LET m1 == resetStatus(mm) IN
         CASE msg.Type = "KeyCtrlC" -> [local(m1, d) EXCEPT !.cmd = "quit"]
           [] msg.Type = "KeyCtrlR" -> doRestart(m1, d, in.answer, in.oks.score)
           [] msg.Type = "KeyBackspace" -> local(doDeleteChar(m1), d)
           [] msg.Type = "KeyEnter" ->
                IF m1.gameOver THEN doRestart(m1, d, in.answer, in.oks.score)
                               ELSE doAcceptGuess(m1, d, in.oks)
           [] msg.Type = "KeyRunes" ->
                IF Len(msg.Runes) = 1
                  THEN local(doAcceptChar(m1, msg.Runes[1]), d)
                  ELSE local(m1, d)
           [] OTHER -> local(m1, d)
    [] msg.kind = "WindowSizeMsg" ->
         local(doResize(mm, msg.Width, msg.Height), d)

\* ----------------------------------------------------------------- view
\* A rendered row is [kind, keys, colors]: the text of its five keys (bytes;
\* 95 is "_", 32 is " ") and, for a filled or empty row, their key states.

\* viewGridRowCurrent renders the current grid row, "_" for the letter being
\* currently input.
viewGridRowCurrent(row, rowIdx) ==
  [kind |-> "current",
   keys |-> [i \in Cols |-> IF i - 1 < rowIdx THEN row[i]
                            ELSE IF i - 1 = rowIdx THEN 95 ELSE 32],
   colors |-> <<>>]

\* viewGridRowEmpty renders an empty grid row, grayed out when the grid is
\* locked.
viewGridRowEmpty(mm) ==
  [kind |-> "empty",
   keys |-> [i \in Cols |-> 32],
   colors |-> [i \in Cols |-> IF mm.gameOver THEN keyStateAbsent
                                             ELSE keyStateUnselected]]

\* viewGrid renders the grid.
viewGrid(mm) ==
  [r \in Rows |->
     IF r - 1 < mm.gridRow
       THEN [kind |-> "filled", keys |-> mm.grid[r],
             colors |-> viewGridRowFilled(mm.answer, mm.grid[r])]
     ELSE IF r - 1 = mm.gridRow /\ ~mm.gameOver
       THEN viewGridRowCurrent(mm.grid[r], mm.gridCol)
     ELSE viewGridRowEmpty(mm)]

\* ------------------------------------------------------------ environment

\* Bounds of the behaviours explored under Spec: game rows in the store,
\* store calls that fail, tea.Tick commands in flight.
MaxGames == 1
MaxFailures == 1
MaxTicks == 2

\* Under Spec GetRandomCommonWord draws TRACE.
limCli == [games |-> MaxGames, failures |-> MaxFailures, ticks |-> MaxTicks,
           answers |-> {TRACE}]

\* The words the player types, letter by letter.
Typable == {TRACE, TRACT, TRACX}

\* Key events carrying runes: upper and lower case letters, the characters
\* next to the letter ranges, a digit, a non-ASCII letter, and a two-rune
\* event.
RuneInputs ==
  {<<r>> : r \in {84, 82, 65, 67, 69, 88, 116, 114, 97, 99, 101, 120,
                  49, 64, 91, 96, 123, 233}}
    \cup {<<84, 82>>}

WindowSizes == {<<80, 24>>}

allOk == [game |-> TRUE, guess |-> TRUE, score |-> TRUE]
Oks == [game : BOOLEAN, guess : BOOLEAN, score : BOOLEAN]
noInput == [answer |-> TRACE, oks |-> allOk]

\* The player keeps to the words of Typable: the row a letter would extend
\* stays a prefix of one of them.
keepsTypable(mm, runes, typable) ==
  LET m1 == doAcceptChar(mm, runes[1])
  IN  Len(runes) = 1 /\ m1.gridCol > mm.gridCol =>
        \E w \in typable :
          \A i \in 1..m1.gridCol : m1.grid[m1.gridRow + 1][i] = w[i]

failures(calls) == Cardinality({i \in 1..Len(calls) : ~calls[i].ok})

\* Every failure drawn was that of a call the handler made (the outcome of
\* a call that is not made is not an input).
drawn(oks, R) ==
  Cardinality({f \in {"game", "guess", "score"} : ~oks[f]}) = failures(R.io)

\* The state after session s handled the message msg with result R, within
\* the bounds lim; used is the number of ticks the message consumed.
Step(s, msg, R, used, lim) ==
  /\ nfail + failures(R.io) <= lim.failures
  /\ Len(R.db.game) <= lim.games
  /\ ticks[s] - used + (IF R.cmd = "tick" THEN 1 ELSE 0) <= lim.ticks
  /\ m' = [m EXCEPT ![s] = R.m]
  /\ db' = R.db
  /\ last' = [last EXCEPT ![s] = [msg |-> msg, io |-> R.io]]
  /\ ticks' = [ticks EXCEPT ![s] = @ - used + (IF R.cmd = "tick" THEN 1 ELSE 0)]
  /\ pc' = [pc EXCEPT ![s] = IF R.cmd = "quit" THEN "quit" ELSE "run"]
  /\ hist' = IF R.end = "none" THEN hist
             ELSE Append(hist, [s |-> s, won |-> R.end = "win", k |-> R.m.gridRow])
  /\ nfail' = nfail + failures(R.io)
  /\ UNCHANGED ev

\* The same, the letters typed not being recorded.
Commit(s, msg, R, used, lim) ==
  /\ Step(s, msg, R, used, lim)
  /\ UNCHANGED typedAt

\* --------------------------------------------------------------- actions

\* tea.Program.Run: Init is the first function that is called.
ProgramInit(s, lim) ==
  /\ pc[s] = "new"
  /\ \E answer \in lim.answers, ok \in BOOLEAN :
       Commit(s, "Init", doRestart(m[s], db, answer, ok), 0, lim)

\* A tea.Tick scheduled by setStatus fires.
MsgResetStatus(s, lim) ==
  /\ pc[s] = "run"
  /\ ticks[s] > 0
  /\ Commit(s, "msgResetStatus",
            Update(m[s], db, [kind |-> "msgResetStatus"], noInput), 1, lim)

KeyMsg(type, runes) == [kind |-> "KeyMsg", Type |-> type, Runes |-> runes]

\* Session s handles the tea.KeyMsg of the given type and runes.
Key(s, type, runes, in, lim) ==
  LET R == Update(m[s], db, KeyMsg(type, runes), in)
  IN  drawn(in.oks, R) /\ Commit(s, type, R, 0, lim)

KeyCtrlC(s, lim) ==
  /\ pc[s] = "run"
  /\ Key(s, "KeyCtrlC", <<>>, noInput, lim)

KeyCtrlR(s, lim) ==
  /\ pc[s] = "run"
  /\ \E answer \in lim.answers, ok \in BOOLEAN :
       Key(s, "KeyCtrlR", <<>>,
           [answer |-> answer, oks |-> [allOk EXCEPT !.score = ok]], lim)

KeyBackspace(s, lim) ==
  /\ pc[s] = "run"
  /\ Key(s, "KeyBackspace", <<>>, noInput, lim)

KeyEnter(s, lim) ==
  /\ pc[s] = "run"
  /\ \E answer \in (IF m[s].gameOver THEN lim.answers ELSE {TRACE}),
        oks \in Oks :
       Key(s, "KeyEnter", <<>>, [answer |-> answer, oks |-> oks], lim)

KeyRunes(s, lim, typable) ==
  /\ pc[s] = "run"
  /\ \E runes \in RuneInputs :
       /\ keepsTypable(m[s], runes, typable)
       /\ Key(s, "KeyRunes", runes, noInput, lim)

\* Any other key (tab, arrows, ...).
KeyOther(s, lim) ==
  /\ pc[s] = "run"
  /\ Key(s, "KeyTab", <<>>, noInput, lim)

WindowSizeMsg(s, lim) ==
  /\ pc[s] = "run"
  /\ \E wh \in WindowSizes :
       Commit(s, "WindowSizeMsg",
              Update(m[s], db, [kind |-> "WindowSizeMsg", Width |-> wh[1],
                                Height |-> wh[2]], noInput), 0, lim)

\* ---------------------------------------------------------------- server
\* runServer: every ssh session gets a model of its own from getModel, and
\* with it a store handle of its own from getStore; the sessions run
\* concurrently and share the database file. A handler that talks to the
\* store is taken in steps, one per store call: while pc[s] names a call,
\* session s is inside that call and holds a connection of its handle; the
\* call takes effect, and the code after it runs, when it returns.

CallStates ==
  {"saveGuess.CreateGame", "saveGuess.CreateGuess",
   "end.GetTotalScore", "restart.GetTotalScore"}
MutatingCalls == {"saveGuess.CreateGame", "saveGuess.CreateGuess"}

inCall(s) == pc[s] \in CallStates

\* getStore: sql.Open for every model, db.SetMaxOpenConns(1).
handleOf(s) == s
MaxOpenConns == 1

\* The connections of handle h that are in use.
inUse(h) == Cardinality({t \in Sessions : handleOf(t) = h /\ inCall(t)})

\* Bounds of the behaviours explored under SpecServer: rows of the tables
\* game and guess, store calls that fail.
ServerGames == 2
ServerGuesses == 3
ServerFailures == 1

limServer == [games |-> ServerGames, guesses |-> ServerGuesses,
              failures |-> ServerFailures, ticks |-> 0,
              answers |-> {TRACE}]

\* The words typed under SpecServer.
ServerTypable == {TRACE, TRACT}

\* Session s, handling the message msg, reaches its first store call op
\* with the struct mm and takes a connection of its handle.
beginCall(s, msg, mm, op) ==
  /\ inUse(handleOf(s)) < MaxOpenConns
  /\ m' = [m EXCEPT ![s] = mm]
  /\ pc' = [pc EXCEPT ![s] = op]
  /\ last' = [last EXCEPT ![s] = [msg |-> msg, io |-> <<>>]]
  /\ UNCHANGED <<ticks, db, hist, nfail, ev, typedAt>>

\* A store call that never gives the control back to the handler (what
\* returnCall is compared with).
returnCallHolds(s, mm, d, calls, nextpc, end, lim) ==
  /\ nfail + failures(calls) <= lim.failures
  /\ Len(d.game) <= lim.games
  /\ Len(d.guess) <= lim.guesses
  /\ m' = [m EXCEPT ![s] = mm]
  /\ db' = d
  /\ last' = [last EXCEPT ![s].io = @ \o calls]
  /\ nfail' = nfail + failures(calls)
  /\ UNCHANGED <<pc, hist, ticks, ev, typedAt>>

\* A store call of session s returned: the struct is mm, the store d, the
\* calls made are added to those of the message, the session goes on to
\* nextpc (its next call, or "run" when the handler returns).
returnCall(s, mm, d, calls, nextpc, end, lim) ==
  /\ nfail + failures(calls) <= lim.failures
  /\ Len(d.game) <= lim.games
  /\ Len(d.guess) <= lim.guesses
  /\ m' = [m EXCEPT ![s] = mm]
  /\ db' = d
  /\ pc' = [pc EXCEPT ![s] = nextpc]
  /\ last' = [last EXCEPT ![s].io = @ \o calls]
  /\ hist' = IF end = "none" THEN hist
             ELSE Append(hist, [s |-> s, won |-> end = "win", k |-> mm.gridRow])
  /\ nfail' = nfail + failures(calls)
  /\ UNCHANGED <<ticks, ev, typedAt>>

\* doAcceptGuess after saveGuess returned with the struct mm and the store
\* d: when the guess ends the game, doWin / doLoss call GetTotalScore;
\* otherwise the handler returns.
afterSaveGuess(s, mm, d, calls, lim) ==
  LET R == acceptGuessFinish(mm, d, mm.grid[mm.gridRow + 1], TRUE)
  IN  IF R.end = "none"
        THEN returnCall(s, R.m, d, calls, "run", "none", lim)
        ELSE returnCall(s, mm, d, calls, "end.GetTotalScore", "none", lim)

\* The struct after the key events typing the letters of w from the i-th on.
RECURSIVE typed(_, _, _, _)
typed(mm, d, w, i) ==
  IF i > Len(w) THEN mm
  ELSE typed(Update(mm, d, KeyMsg("KeyRunes", <<w[i]>>), noInput).m, d, w, i + 1)

\* The player of session s types a word on an empty row: five key events,
\* which touch nothing but the struct of the session, taken together.
TypeWord(s, lim, typable) ==
  /\ pc[s] = "run"
  /\ ~m[s].gameOver /\ m[s].gridCol = 0
  /\ \E w \in typable :
       Commit(s, "KeyRunes", local(typed(m[s], db, w, 1), db), 0, lim)

\* The session starts: tea.Program calls Init, which calls doRestart.
SessionStart(s) ==
  /\ pc[s] = "new"
  /\ beginCall(s, "Init", m[s], "restart.GetTotalScore")

\* Ctrl+R: doRestart, up to its GetTotalScore call.
BeginKeyCtrlR(s) ==
  /\ pc[s] = "run"
  /\ beginCall(s, "KeyCtrlR", resetStatus(m[s]), "restart.GetTotalScore")

\* Enter: doRestart when the game is over, else doAcceptGuess with a guess
\* that is accepted, up to the first store call of saveGuess.
BeginKeyEnter(s) ==
  /\ pc[s] = "run"
  /\ LET m1 == resetStatus(m[s])
     IN  IF m1.gameOver
           THEN beginCall(s, "KeyEnter", m1, "restart.GetTotalScore")
           ELSE /\ guessVerdict(m1) = "accept"
                /\ beginCall(s, "KeyEnter", m1,
                             IF m1.gameID = 0 THEN "saveGuess.CreateGame"
                                              ELSE "saveGuess.CreateGuess")

ReturnCreateGame(s, lim) ==
  /\ pc[s] = "saveGuess.CreateGame"
  /\ \E ok \in BOOLEAN :
       LET g == saveGuessGame(m[s], db, ok)
       IN  IF g.err
             THEN afterSaveGuess(s, g.m, g.db, g.io, lim)
             ELSE returnCall(s, g.m, g.db, g.io, "saveGuess.CreateGuess",
                             "none", lim)

ReturnCreateGuess(s, lim) ==
  /\ pc[s] = "saveGuess.CreateGuess"
  /\ \E ok \in BOOLEAN :
       LET c == saveGuessGuess(m[s], db, m[s].grid[m[s].gridRow + 1], ok)
       IN  afterSaveGuess(s, c.m, c.db, c.io, lim)

\* GetTotalScore returned to updateScore, called by doWin / doLoss or by
\* doRestart.
ReturnGetTotalScore(s, lim) ==
  \/ /\ pc[s] = "end.GetTotalScore"
     /\ \E ok \in BOOLEAN :
          LET R == acceptGuessFinish(m[s], db, m[s].grid[m[s].gridRow + 1], ok)
          IN  returnCall(s, R.m, db, R.io, "run", R.end, lim)
  \/ /\ pc[s] = "restart.GetTotalScore"
     /\ \E answer \in lim.answers, ok \in BOOLEAN :
          LET R == doRestart(m[s], db, answer, ok)
          IN  returnCall(s, R.m, db, R.io, "run", "none", lim)

\* ------------------------------------------------------ row evaluation

EvalLetters == {65, 69, 83}
EvalWords == [Cols -> EvalLetters] \cup {CRANE, CRATE, SPEED, ERASE}

noEval == [answer |-> zeroWord, word |-> zeroWord, keyStates |-> <<>>]

\* viewGrid renders a finalized row of the grid.
Evaluate ==
  /\ ev.keyStates = <<>>
  /\ ev.answer # zeroWord
  /\ ev' = [ev EXCEPT !.keyStates = viewGridRowFilled(ev.answer, ev.word)]
  /\ UNCHANGED <<m, pc, ticks, db, last, hist, nfail, typedAt>>

\* --------------------------------------------------------- specifications

InitSessions ==
  /\ m = [s \in Sessions |-> newModel]
  /\ pc = [s \in Sessions |-> "new"]
  /\ ticks = [s \in Sessions |-> 0]
  /\ db = emptyDb
  /\ last = [s \in Sessions |-> [msg |-> "", io |-> <<>>]]
  /\ hist = <<>>
  /\ nfail = 0
  /\ typedAt = [s \in Sessions |-> [r \in Rows |-> zeroWord]]

Init == InitSessions /\ ev = noEval

\* runCLI: one program, one session.
Next ==
  \/ ProgramInit(1, limCli)
  \/ MsgResetStatus(1, limCli)
  \/ KeyCtrlC(1, limCli)
  \/ KeyCtrlR(1, limCli)
  \/ KeyBackspace(1, limCli)
  \/ KeyEnter(1, limCli)
  \/ KeyRunes(1, limCli, Typable)
  \/ KeyOther(1, limCli)
  \/ WindowSizeMsg(1, limCli)

Spec == Init /\ [][Next]_vars

\* runServer: the sessions of Sessions, running concurrently.
NextServer ==
  \E s \in Sessions :
    \/ SessionStart(s)
    \/ TypeWord(s, limServer, ServerTypable)
    \/ BeginKeyCtrlR(s)
    \/ BeginKeyEnter(s)
    \/ ReturnCreateGame(s, limServer)
    \/ ReturnCreateGuess(s, limServer)
    \/ ReturnGetTotalScore(s, limServer)

SpecServer == Init /\ [][NextServer]_vars

\* The server with the deadlines of its store calls.  saveGuess and
\* updateScore give every call a context that expires after 5 seconds, so
\* the store answers a call that is in progress, with a value or with an
\* error, and the session leaves the call: that step is weakly fair.
FairGames == 2
FairGuesses == 2
FairFailures == 3

limFair == [games |-> FairGames, guesses |-> FairGuesses,
            failures |-> FairFailures, ticks |-> 0, answers |-> {TRACE}]

\* The word typed under SpecServerFair.
FairTypable == {TRACE}

\* The store calls that the handler of session t may still see fail:
\* saveGuess fails at most once and GetTotalScore may follow it.
pendingFailures(t) ==
  IF pc[t] \in MutatingCalls THEN 2 ELSE IF inCall(t) THEN 1 ELSE 0

RECURSIVE pendingOf(_)
pendingOf(S) ==
  IF S = {} THEN 0
  ELSE LET t == CHOOSE t \in S : TRUE
       IN  pendingFailures(t) + pendingOf(S \ {t})

\* The bound on the failures explored is applied where a handler starts,
\* never where a call returns: a call in progress can always fail.
room(need) == nfail + pendingOf(Sessions) + need <= FairFailures

FairSessionStart(s) ==
  /\ room(1)
  /\ SessionStart(s)

FairTypeWord(s) ==
  /\ pc[s] = "run"
  /\ TypeWord(s, limFair, FairTypable)

FairKeyCtrlR(s) ==
  /\ room(1)
  /\ BeginKeyCtrlR(s)

FairKeyEnter(s) ==
  /\ room(IF m[s].gameOver THEN 1 ELSE 2)
  /\ BeginKeyEnter(s)

\* The steps that session s takes when the store answers its call.
Return(s) ==
  \/ ReturnCreateGame(s, limFair)
  \/ ReturnCreateGuess(s, limFair)
  \/ ReturnGetTotalScore(s, limFair)

\* The store answers the call of session s: the session moves on, to the
\* next call of its handler or back to its event loop.
Answered(s) ==
  /\ inCall(s)
  /\ \E q \in (CallStates \cup {"run"}) \ {pc[s]} :
       pc' = [pc EXCEPT ![s] = q]

NextServerFair ==
  \E s \in Sessions :
    \/ FairSessionStart(s)
    \/ FairTypeWord(s)
    \/ FairKeyCtrlR(s)
    \/ FairKeyEnter(s)
    \/ ReturnCreateGame(s, limFair)
    \/ ReturnCreateGuess(s, limFair)
    \/ ReturnGetTotalScore(s, limFair)

SpecServerFair ==
  /\ Init
  /\ [][NextServerFair]_vars
  /\ \A s \in Sessions : WF_pc(Answered(s))

\* The sequences over S of length at most n.
SeqUpTo(S, n) == UNION {[1..k -> S] : k \in 0..n}

\* Bounds of the database files explored under SpecLedger: rows of the
\* tables game and guess.
LedgerGames == 2
LedgerGuesses == 3

\* The database files the program may find when it starts: getStore opens
\* the file that is there. A game_id may name a row that game does not have.
Ledgers ==
  [game  : SeqUpTo([answer : {TRACE, TRACT}], LedgerGames),
   guess : SeqUpTo([game_id : 1..(LedgerGames + 1), guess : {TRACE, TRACT}],
                   LedgerGuesses)]

limLedger == [games |-> LedgerGames, failures |-> 1, ticks |-> 0,
              answers |-> {TRACE}]

InitLedger ==
  /\ m = [s \in Sessions |-> newModel]
  /\ pc = [s \in Sessions |-> "new"]
  /\ ticks = [s \in Sessions |-> 0]
  /\ db \in Ledgers
  /\ last = [s \in Sessions |-> [msg |-> "", io |-> <<>>]]
  /\ hist = <<>>
  /\ nfail = 0
  /\ ev = noEval
  /\ typedAt = [s \in Sessions |-> [r \in Rows |-> zeroWord]]

\* The program starts on the database file and reads the score.
NextLedger == ProgramInit(1, limLedger)

SpecLedger == InitLedger /\ [][NextLedger]_vars

\* The reference game: the answer drawn is CRANE, the player types the
\* words SPEED, CRATE and CRANE, in any order and any number of times, in
\* upper or lower case, hits other keys in between, and no store call
\* fails.
CaseFailures == 0

limCase == [games |-> MaxGames, failures |-> CaseFailures, ticks |-> 0,
            answers |-> {CRANE}]

CaseTypable == {SPEED, CRATE, CRANE}

\* The letters of the words of CaseTypable, in upper and in lower case, the
\* characters next to the letter ranges, a digit, a non-ASCII letter.
CaseRunes ==
  {65, 67, 68, 69, 78, 80, 82, 83, 84} \cup
  {97, 99, 100, 101, 110, 112, 114, 115, 116} \cup
  {49, 64, 91, 96, 123, 233}

\* Key events carrying one of these runes, or two runes.
CaseRuneInputs == {<<r>> : r \in CaseRunes} \cup {<<67, 82>>}

CaseKeyRunes(s) ==
  /\ pc[s] = "run"
  /\ \E runes \in CaseRuneInputs :
       /\ keepsTypable(m[s], runes, CaseTypable)
       /\ Key(s, "KeyRunes", runes, noInput, limCase)

NextCase ==
  \/ ProgramInit(1, limCase)
  \/ KeyBackspace(1, limCase)
  \/ KeyEnter(1, limCase)
  \/ CaseKeyRunes(1)

SpecCase == Init /\ [][NextCase]_vars

\* The player's keyboard watched: no store call fails, the answer drawn is
\* TRACE, the player types the words of Typable letter by letter, deletes
\* letters, submits rows and restarts, and every letter typed is recorded
\* at the column the cursor was on.
RowGames == 2
RowFailures == 0

limRow == [games |-> RowGames, failures |-> RowFailures, ticks |-> 0,
           answers |-> {TRACE}]

\* The record of the letters typed after the player of a session whose
\* struct is mm hit the key of the given type: a restart starts an empty
\* record; a letter, while the game runs and the row has room, is typed at
\* the column of the cursor.
noted(mm, typedRows, type, runes) ==
  IF type \in {"Init", "KeyCtrlR"} \/ (type = "KeyEnter" /\ mm.gameOver)
    THEN [r \in Rows |-> zeroWord]
  ELSE IF /\ type = "KeyRunes" /\ Len(runes) = 1
          /\ isAsciiUpper(toAsciiUpper(runes[1]))
          /\ ~mm.gameOver /\ mm.gridCol < numChars
    THEN [typedRows EXCEPT ![mm.gridRow + 1][mm.gridCol + 1] =
                             toAsciiUpper(runes[1])]
  ELSE typedRows

RowKey(s, type, runes, in) ==
  LET R == Update(m[s], db, KeyMsg(type, runes), in)
  IN  /\ drawn(in.oks, R)
      /\ Step(s, type, R, 0, limRow)
      /\ typedAt' = [typedAt EXCEPT ![s] = noted(m[s], @, type, runes)]

RowProgramInit(s) ==
  /\ pc[s] = "new"
  /\ Step(s, "Init", doRestart(m[s], db, TRACE, TRUE), 0, limRow)
  /\ typedAt' = [typedAt EXCEPT ![s] = noted(m[s], @, "Init", <<>>)]

RowKeyCtrlR(s) ==
  /\ pc[s] = "run"
  /\ RowKey(s, "KeyCtrlR", <<>>, noInput)

RowKeyBackspace(s) ==
  /\ pc[s] = "run"
  /\ RowKey(s, "KeyBackspace", <<>>, noInput)

RowKeyEnter(s) ==
  /\ pc[s] = "run"
  /\ RowKey(s, "KeyEnter", <<>>, noInput)

RowKeyRunes(s) ==
  /\ pc[s] = "run"
  /\ \E runes \in RuneInputs :
       /\ keepsTypable(m[s], runes, Typable)
       /\ RowKey(s, "KeyRunes", runes, noInput)

NextRow ==
  \/ RowProgramInit(1)
  \/ RowKeyCtrlR(1)
  \/ RowKeyBackspace(1)
  \/ RowKeyEnter(1)
  \/ RowKeyRunes(1)

SpecRow == Init /\ [][NextRow]_vars

\* The evaluation of a finalized row, for every answer and row of EvalWords.
InitEval ==
  /\ InitSessions
  /\ ev \in [answer : EvalWords, word : EvalWords, keyStates : {<<>>}]

NextEval == Evaluate

SpecEval == InitEval /\ [][NextEval]_vars

\* ------------------------------------------------------------- properties

Letters == 65..90

\* Number of positions of the word w holding the letter c.
count(c, w) == Cardinality({i \in Cols : w[i] = c})

\* Number of positions of the evaluated row holding c and classified st.
marked(c, st) ==
  Cardinality({i \in Cols : ev.word[i] = c /\ ev.keyStates[i] = st})

evaluated == ev.keyStates # <<>>

\* C1: in a finalized row, for every letter L, the positions holding L that
\* are classified Correct or Present are at most count(L, answer), and those
\* classified Present are at most the occurrences of L in the answer that
\* the exact matches left unconsumed.
C1_NoOverCount ==
  evaluated =>
    \A c \in Letters :
      /\ marked(c, keyStateCorrect) + marked(c, keyStatePresent)
           <= count(c, ev.answer)
      /\ marked(c, keyStatePresent)
           <= count(c, ev.answer) - marked(c, keyStateCorrect)

\* A row evaluated against CRANE that repeats E: the E of column 5 is an
\* exact match and uses up the only E of the answer, the E of column 1 is
\* left Absent.
C1_Witness ==
  /\ ev.answer = CRANE /\ ev.word = ERASE
  /\ ev.keyStates = <<keyStateAbsent, keyStateCorrect, keyStateCorrect,
                      keyStateAbsent, keyStateCorrect>>
  /\ \E c \in Letters : /\ count(c, ev.word) > count(c, ev.answer)
                        /\ marked(c, keyStateAbsent) > 0
                        /\ count(c, ev.answer) > 0

\* The results session 1 can get from handling the message msg in the
\* current state: one for every answer GetRandomCommonWord may return and
\* every outcome of the store calls.
Inputs == [answer : CommonWords, oks : Oks]
draws(msg) == msg.kind = "KeyMsg" /\ msg.Type \in {"KeyEnter", "KeyCtrlR"}
handled(msg) ==
  {Update(m[1], db, msg, in) : in \in IF draws(msg) THEN Inputs ELSE {noInput}}

\* The messages a session can receive.
Msgs ==
  {[kind |-> "msgResetStatus"]}
    \cup {[kind |-> "WindowSizeMsg", Width |-> wh[1], Height |-> wh[2]] :
            wh \in WindowSizes}
    \cup {KeyMsg(type, <<>>) : type \in {"KeyCtrlC", "KeyCtrlR", "KeyBackspace",
                                         "KeyEnter", "KeyTab"}}
    \cup {KeyMsg("KeyRunes", runes) : runes \in RuneInputs}

\* Restart: Ctrl+R in any state, Enter when the game is over.
isRestart(msg) ==
  /\ msg.kind = "KeyMsg"
  /\ \/ msg.Type = "KeyCtrlR"
     \/ msg.Type = "KeyEnter" /\ m[1].gameOver

running == pc[1] = "run"
inProgress == running /\ ~m[1].gameOver
currentRow == m[1].grid[m[1].gridRow + 1]

\* The score of the games that ended: 100 - 10*(k-1) for a game won on its
\* k-th accepted guess, 0 for a lost game.
RECURSIVE wonScore(_)
wonScore(h) ==
  IF h = <<>> THEN 0
  ELSE (IF Head(h).won THEN 100 - 10 * (Head(h).k - 1) ELSE 0)
         + wonScore(Tail(h))

\* No game is under way: the session's game is over or has no accepted guess.
completed == running /\ (m[1].gameOver \/ m[1].gridRow = 0)

\* C2: after any sequence of games played to completion, the total score
\* GetTotalScore returns is the sum over the games won of 100 - 10*(k-1),
\* k the number of the accepted guess that won; a lost game contributes 0.
C2_TotalScore == completed => GetTotalScore(db) = wonScore(hist)

\* The first accepted guess was not persisted (CreateGame failed), the
\* second one won: the game won on guess 2 is in the store with one guess
\* and scores 100.
C2_Witness ==
  /\ completed
  /\ hist = <<[s |-> 1, won |-> TRUE, k |-> 2]>>
  /\ nfail = 1
  /\ Len(db.game) = 1 /\ Len(db.guess) = 1
  /\ GetTotalScore(db) = 100

\* The same, for the sequences in which every store call succeeded.
C2_TotalScoreNoFailure ==
  completed /\ nfail = 0 => GetTotalScore(db) = wonScore(hist)

\* C3: Enter in a game in progress with a complete row that is not a
\* dictionary word leaves gridRow, gridCol, the grid, the key states,
\* gameOver and gameID unchanged, makes no store call and leaves the store
\* as it was; it only sets the status "That's not a valid word." (and
\* schedules its reset). While that status is shown the row is editable:
\* Backspace decrements gridCol.
C3_InvalidWordRejected ==
  /\ ( inProgress /\ m[1].gridCol = numChars /\ ~IsWord(currentRow) )
       => \A R \in handled(KeyMsg("KeyEnter", <<>>)) :
            /\ R.m = [m[1] EXCEPT !.status = statusInvalid,
                                  !.statusPending = @ + 1]
            /\ R.io = <<>> /\ R.db = db
            /\ R.cmd = "tick" /\ R.end = "none"
  /\ ( running /\ m[1].status = statusInvalid )
       => \A R \in handled(KeyMsg("KeyBackspace", <<>>)) :
            /\ R.m.gridCol = m[1].gridCol - 1
            /\ R.m.gridRow = m[1].gridRow
            /\ R.m.grid = m[1].grid

\* The word TRACX was just rejected in the second row.
C3_Witness ==
  /\ last[1].msg = "KeyEnter"
  /\ m[1].status = statusInvalid
  /\ m[1].gridRow = 1 /\ m[1].gridCol = numChars
  /\ currentRow = TRACX
  /\ ~m[1].gameOver

\* C4: Enter in a game in progress with gridCol < 5 changes none of
\* gridRow, gridCol, the grid, the key states, gameOver and gameID, makes
\* no store call at all (neither CreateGame nor CreateGuess nor
\* GetTotalScore), and sets the status "Your guess must be a 5-letter
\* word.".
C4_ShortRowRejected ==
  ( inProgress /\ m[1].gridCol < numChars )
    => \A R \in handled(KeyMsg("KeyEnter", <<>>)) :
         /\ R.m = [m[1] EXCEPT !.status = statusShort,
                               !.statusPending = @ + 1]
         /\ R.io = <<>> /\ R.db = db
         /\ R.cmd = "tick" /\ R.end = "none"

\* Enter was pressed on a row of three letters, after one accepted guess.
C4_Witness ==
  /\ last[1].msg = "KeyEnter"
  /\ m[1].status = statusShort
  /\ m[1].gridRow = 1 /\ m[1].gridCol = 3
  /\ Len(db.guess) = 1
  /\ ~m[1].gameOver

accepts == inProgress /\ m[1].gridCol = numChars /\ IsWord(currentRow)

\* The best state the guess shows for the letter c: Correct when c stands
\* where the answer has it, Present when c is elsewhere in the answer,
\* Absent when the guess has c and the answer has not, else Unselected.
letterState(c, guess, answer) ==
  IF \E i \in Cols : guess[i] = c /\ answer[i] = c THEN keyStateCorrect
  ELSE IF ~(\E i \in Cols : guess[i] = c) THEN keyStateUnselected
  ELSE IF \E i \in Cols : answer[i] = c THEN keyStatePresent
  ELSE keyStateAbsent

\* C5: no message other than a restart (no key, timer or resize event)
\* lowers the key state of any letter, in the order Unselected < Absent <
\* Present < Correct; an accepted guess sets the state of every letter to
\* the maximum of its state so far and the state the guess shows for it.
C5_KeyStatesMonotone ==
  /\ running =>
       \A msg \in Msgs : ~isRestart(msg) =>
         \A R \in handled(msg) : \A c \in Letters :
           mapGet(R.m.keyStates, c) >= mapGet(m[1].keyStates, c)
  /\ accepts =>
       \A R \in handled(KeyMsg("KeyEnter", <<>>)) : \A c \in Letters :
         mapGet(R.m.keyStates, c) =
           max(mapGet(m[1].keyStates, c),
               letterState(c, currentRow, m[1].answer))

\* TRACT was accepted twice against TRACE: its last T is only Present, the
\* T key stays Correct.
C5_Witness ==
  /\ last[1].msg = "KeyEnter"
  /\ m[1].answer = TRACE
  /\ m[1].gridRow = 2
  /\ m[1].grid[1] = TRACT /\ m[1].grid[2] = TRACT
  /\ mapGet(m[1].keyStates, 84) = keyStateCorrect
  /\ mapGet(m[1].keyStates, 69) = keyStateUnselected

\* The successful CreateGame calls among the store calls of a result.
created(R) == {i \in 1..Len(R.io) : R.io[i] = call("CreateGame", TRUE)}
callsOf(R, op) == {i \in 1..Len(R.io) : R.io[i].op = op}

\* C6: within a game instance CreateGame succeeds at most once, and only
\* while an accepted guess is submitted: a handler calls CreateGame only for
\* an accepted guess of a game that has no game id yet, at most once; a
\* success gives the game its id, which only a restart clears, so a later
\* guess of the same game creates no second row. Start and restart call
\* neither CreateGame nor CreateGuess, and no message other than an accepted
\* guess changes the store; a game without an accepted guess has no game id.
C6_GameCreatedOnce ==
  /\ running =>
       \A msg \in Msgs : \A R \in handled(msg) :
         LET accepted == accepts /\ msg = KeyMsg("KeyEnter", <<>>) IN
         /\ Cardinality(callsOf(R, "CreateGame")) <= 1
         /\ callsOf(R, "CreateGame") # {} => accepted /\ m[1].gameID = 0
         /\ callsOf(R, "CreateGuess") # {} => accepted
         /\ Len(R.db.game) = Len(db.game) + Cardinality(created(R))
         /\ created(R) # {} => R.m.gameID = Len(R.db.game)
         /\ m[1].gameID # 0 /\ ~isRestart(msg) => R.m.gameID = m[1].gameID
         /\ ~accepted => R.db = db
  /\ \A in \in Inputs :
       LET R == doRestart(m[1], db, in.answer, in.oks.score) IN
         /\ R.db = db
         /\ callsOf(R, "CreateGame") = {} /\ callsOf(R, "CreateGuess") = {}
         /\ R.m.gameID = 0
  /\ running /\ m[1].gridRow = 0 => m[1].gameID = 0

\* The second guess of a game was accepted: its handler called CreateGuess
\* only, the store holds one game row and two guess rows.
C6_Witness ==
  /\ last[1] = [msg |-> "KeyEnter", io |-> <<call("CreateGuess", TRUE)>>]
  /\ m[1].gridRow = 2 /\ m[1].gameID = 1
  /\ Len(db.game) = 1 /\ Len(db.guess) = 2

\* The grid as rendered for a game that has just started.
blankGrid ==
  [r \in Rows |->
     IF r = 1 THEN viewGridRowCurrent(zeroWord, 0)
              ELSE [kind |-> "empty", keys |-> [i \in Cols |-> 32],
                    colors |-> [i \in Cols |-> keyStateUnselected]]]

\* C7: a restart (Ctrl+R in any state, Enter when the game is over) leaves
\* the rendered grid blank (the cells of the grid array keep their letters,
\* none of them is shown), the cursor at row 0 / column 0, the key states
\* empty, gameOver false and the answer a word drawn from the common words;
\* it calls neither CreateGame nor CreateGuess, and the store, hence the
\* total score GetTotalScore computes from it, is the same before and after.
C7_Restart ==
  running =>
    \A msg \in Msgs : isRestart(msg) =>
      \A in \in Inputs :
        LET R == Update(m[1], db, msg, in) IN
          /\ viewGrid(R.m) = blankGrid
          /\ R.m.gridRow = 0 /\ R.m.gridCol = 0
          /\ R.m.keyStates = emptyMap
          /\ ~R.m.gameOver
          /\ R.m.answer = in.answer /\ R.m.answer \in CommonWords
          /\ R.m.gameID = 0
          /\ callsOf(R, "CreateGame") = {} /\ callsOf(R, "CreateGuess") = {}
          /\ R.db = db
          /\ GetTotalScore(R.db) = GetTotalScore(db)

\* Enter restarted a game won on its second guess: the cursor is back at
\* the start, the keys are unselected, the store still holds the game and
\* the score read from it is 90.
C7_Witness ==
  /\ last[1] = [msg |-> "KeyEnter", io |-> <<call("GetTotalScore", TRUE)>>]
  /\ m[1].gridRow = 0 /\ m[1].gridCol = 0 /\ ~m[1].gameOver
  /\ m[1].keyStates = emptyMap
  /\ m[1].grid[1] = TRACT /\ m[1].grid[2] = TRACE
  /\ Len(db.game) = 1 /\ Len(db.guess) = 2
  /\ m[1].score = 90 /\ m[1].status = statusScore(90)

\* The game that ended last.
lastEnded == hist[Len(hist)]

\* C8: an accepted guess ends the game as won exactly when it equals the
\* answer (on any row, the sixth included), as lost exactly when it is the
\* sixth accepted guess and differs from the answer, and otherwise leaves
\* the game in progress with the cursor at the start of the next row. A
\* game in progress has fewer than 6 finalized rows, a game that is over
\* has between 1 and 6, and it is over as won or lost according to its last
\* finalized row.
C8_GameEnds ==
  /\ accepts =>
       \A R \in handled(KeyMsg("KeyEnter", <<>>)) :
         /\ R.m.gridRow = m[1].gridRow + 1
         /\ R.end = "win" <=> currentRow = m[1].answer
         /\ R.end = "loss" <=> /\ m[1].gridRow + 1 = numGuesses
                               /\ currentRow # m[1].answer
         /\ R.m.gameOver <=> R.end # "none"
         /\ R.end = "win" => R.m.status = statusWin
         /\ R.end = "loss" => R.m.status = statusLoss(m[1].answer)
         /\ R.end = "none" => R.m.gridCol = 0 /\ R.m.gridRow < numGuesses
  /\ running =>
       IF m[1].gameOver
         THEN /\ m[1].gridRow \in 1..numGuesses
              /\ hist # <<>>
              /\ lastEnded.k = m[1].gridRow
              /\ lastEnded.won <=> m[1].grid[m[1].gridRow] = m[1].answer
              /\ ~lastEnded.won => m[1].gridRow = numGuesses
         ELSE m[1].gridRow \in 0..(numGuesses - 1)

\* The sixth guess was accepted and differs from the answer: the game is
\* lost with six finalized rows.
C8_Witness ==
  /\ last[1].msg = "KeyEnter"
  /\ m[1].gameOver /\ m[1].gridRow = numGuesses
  /\ m[1].grid[numGuesses] = TRACT /\ m[1].answer = TRACE
  /\ m[1].status = statusLoss(TRACE)
  /\ hist = <<[s |-> 1, won |-> FALSE, k |-> numGuesses]>>

\* C9: a msgResetStatus decrements statusPending and changes nothing else
\* but the status, which it sets to the default "Score: N" exactly when the
\* counter is zero after the decrement; of the timers scheduled and not yet
\* delivered, every one but the last leaves the status as it is, and the
\* last one reverts it.
C9_TimerResetsLast ==
  running /\ ticks[1] > 0 =>
    \A R \in handled([kind |-> "msgResetStatus"]) :
      /\ R.m.statusPending = m[1].statusPending - 1
      /\ R.m = [m[1] EXCEPT !.statusPending = @ - 1,
                            !.status = IF m[1].statusPending - 1 = 0
                                         THEN statusScore(m[1].score) ELSE @]
      /\ ticks[1] > 1 => R.m.status = m[1].status
      /\ ticks[1] = 1 => R.m.status = statusScore(m[1].score)
      /\ R.io = <<>> /\ R.db = db /\ R.cmd = "nil"

\* Two rejections were scheduled; the first timer has fired and left the
\* message of the second in place.
C9_Witness ==
  /\ last[1].msg = "msgResetStatus"
  /\ ticks[1] = 1 /\ m[1].statusPending = 1
  /\ m[1].status = statusInvalid

\* The key events that set a status of their own: Enter in a game in
\* progress when the guess is rejected or ends the game.
setsStatus(msg, R) ==
  /\ msg = KeyMsg("KeyEnter", <<>>)
  /\ inProgress
  /\ ~accepts \/ R.end # "none"

\* C10: after a key event that sets no status of its own (a letter,
\* Backspace, Ctrl+R, Ctrl+C, any other key, an Enter that restarts, an
\* Enter accepted without ending the game) the status is the default
\* "Score: <score>", whatever statusPending is and however many reset
\* timers are outstanding.
C10_KeyResetsStatus ==
  running =>
    \A msg \in Msgs : msg.kind = "KeyMsg" =>
      \A R \in handled(msg) :
        ~setsStatus(msg, R) => R.m.status = statusScore(R.m.score)

\* A letter was typed while two reset timers were outstanding: the status
\* is the default one.
C10_Witness ==
  /\ last[1].msg = "KeyRunes"
  /\ ticks[1] = 2 /\ m[1].statusPending = 2
  /\ m[1].gridCol = 1
  /\ m[1].status = statusScore(m[1].score)

\* The status a game that is over was given when it ended.
endStatus == m[1].status \in {statusWin, statusLoss(m[1].answer)}

\* C11: while the status of a game that is over is still the one set at
\* its end ("You win!", or the message revealing the answer), so that no
\* key event was received since, no msgResetStatus replaces it, whichever
\* setStatus scheduled the timer.
C11_EndStatusPermanent ==
  running /\ m[1].gameOver /\ endStatus /\ ticks[1] > 0 =>
    \A R \in handled([kind |-> "msgResetStatus"]) : R.m.status = m[1].status

\* The game was won while the reset timer of an earlier rejected guess was
\* still outstanding: "You win!" is shown and the timer is about to fire.
C11_Witness ==
  /\ last[1].msg = "KeyEnter"
  /\ m[1].gameOver /\ m[1].status = statusWin
  /\ ticks[1] = 1 /\ m[1].statusPending = 1
  /\ \E R \in handled([kind |-> "msgResetStatus"]) :
       R.m.status = statusScore(m[1].score)

\* The fields of the struct that make up the game.
gameView(mm) ==
  [gridRow |-> mm.gridRow, gridCol |-> mm.gridCol, grid |-> mm.grid,
   keyStates |-> mm.keyStates, gameOver |-> mm.gameOver]

\* The struct with what the store gave it (game id, score) forgotten.
forget(mm) == [mm EXCEPT !.gameID = 0, !.score = 0]

\* C12: a failure of CreateGame, CreateGuess or GetTotalScore changes
\* nothing of the game: for every message, the resulting gridRow, gridCol,
\* grid, key states and gameOver, and the command returned (the session
\* quits on Ctrl+C only), are the same for every outcome of the store
\* calls, and they are those obtained from the same game fields with no
\* game id, no score and an empty store, so that they are the same along a
\* whole sequence of events. When GetTotalScore fails, the score field
\* keeps its value.
C12_FailureNonFatal ==
  running =>
    \A msg \in Msgs : \A in \in (IF draws(msg) THEN Inputs ELSE {noInput}) :
      LET R  == Update(m[1], db, msg, in)
          R0 == Update(forget(m[1]), emptyDb, msg, [in EXCEPT !.oks = allOk])
      IN  /\ gameView(R.m) = gameView(R0.m)
          /\ R.cmd = R0.cmd /\ R.end = R0.end
          /\ R.cmd = "quit" <=> msg = KeyMsg("KeyCtrlC", <<>>)
          /\ call("GetTotalScore", FALSE) \in {R.io[i] : i \in 1..Len(R.io)}
               => R.m.score = m[1].score

\* CreateGame failed for the first guess, which was accepted all the same:
\* the row is finalized, the keys are coloured, nothing is in the store.
C12_Witness ==
  /\ last[1] = [msg |-> "KeyEnter", io |-> <<call("CreateGame", FALSE)>>]
  /\ nfail = 1
  /\ m[1].gridRow = 1 /\ m[1].gridCol = 0 /\ ~m[1].gameOver
  /\ m[1].grid[1] = TRACT
  /\ mapGet(m[1].keyStates, 84) = keyStateCorrect
  /\ db = emptyDb /\ m[1].gameID = 0

\* C13: every guess row of the store references a game row that exists; a
\* session that is inside CreateGuess passes the id of a game row that
\* exists and holds the answer of its current game, and no two sessions
\* hold the same game id. GetTotalScore, which reads the store as it is
\* when the call takes effect, therefore never sees a guess without its
\* game.
C13_GuessHasGame ==
  /\ \A i \in 1..Len(db.guess) : db.guess[i].game_id \in 1..Len(db.game)
  /\ \A s \in Sessions :
       pc[s] = "saveGuess.CreateGuess" =>
         /\ m[s].gameID \in 1..Len(db.game)
         /\ db.game[m[s].gameID].answer = m[s].answer
  /\ \A s, t \in Sessions :
       s # t /\ m[s].gameID # 0 => m[s].gameID # m[t].gameID

\* Two sessions saved their first guesses one inside the other: session 1
\* created game 1, session 2 created game 2 and its guess, then session 1
\* created its guess.
C13_Witness ==
  /\ Len(db.game) = 2 /\ Len(db.guess) = 2
  /\ db.guess[1].game_id = 2 /\ db.guess[2].game_id = 1
  /\ m[1].gameID = 1 /\ m[2].gameID = 2
  /\ pc[1] = "run" /\ pc[2] = "run"

\* A guess row whose game does not exist.
orphans == {i \in 1..Len(db.guess) : db.guess[i].game_id \notin 1..Len(db.game)}

\* C14: when the store holds a guess row whose game does not exist, the
\* computation of the total score reports an error: the GetTotalScore call
\* of updateScore does not succeed.
C14_InconsistencyReported ==
  running /\ orphans # {} => last[1].io = <<call("GetTotalScore", FALSE)>>

\* The store holds a guess row and no game row at all: GetTotalScore
\* succeeded and the score read is 0.
C14_Witness ==
  /\ running
  /\ db = [game |-> <<>>, guess |-> <<[game_id |-> 1, guess |-> TRACE]>>]
  /\ last[1] = [msg |-> "Init", io |-> <<call("GetTotalScore", TRUE)>>]
  /\ m[1].score = 0 /\ m[1].status = statusScore(0)

\* C15: no two sessions are inside a mutating store call (CreateGame,
\* CreateGuess) at the same time.
C15_WritesSerialized ==
  \A s, t \in Sessions :
    s # t => ~(pc[s] \in MutatingCalls /\ pc[t] \in MutatingCalls)

\* Session 1 is inside CreateGame and session 2 inside CreateGuess, each
\* on the one connection of its own handle.
C15_Witness ==
  /\ pc[1] = "saveGuess.CreateGame" /\ pc[2] = "saveGuess.CreateGuess"
  /\ handleOf(1) # handleOf(2)
  /\ inUse(handleOf(1)) = MaxOpenConns /\ inUse(handleOf(2)) = MaxOpenConns

colorsOf(r) == viewGrid(m[1])[r].colors

allCorrect == [i \in Cols |-> keyStateCorrect]

\* The first n rows of session 1's grid are filled with the words of ws.
filled(ws) ==
  /\ m[1].gridRow = Len(ws)
  /\ \A r \in 1..Len(ws) : m[1].grid[r] = ws[r]

\* The games that ended before the last one that did.
earlier == SubSeq(hist, 1, Len(hist) - 1)

\* C17: the answer SPEED classifies the guess ERASE as Present, Absent,
\* Absent, Present, Present; with the answer CRANE, every row holding
\* SPEED is rendered Absent, Absent, Present, Absent, Absent, every row
\* holding CRATE Correct, Correct, Correct, Absent, Correct, every row
\* holding CRANE all Correct; after SPEED, CRATE the game is still going
\* on; after SPEED, CRATE, CRANE it is won on guess 3 and, no store call
\* having failed, the total score of the store, which is also the score
\* shown, is 80 more than what the games before it scored.
C17_ReferenceCases ==
  /\ viewGridRowFilled(SPEED, ERASE)
       = <<keyStatePresent, keyStateAbsent, keyStateAbsent,
           keyStatePresent, keyStatePresent>>
  /\ running /\ m[1].answer = CRANE =>
       /\ \A r \in 1..m[1].gridRow :
            /\ m[1].grid[r] = SPEED =>
                 colorsOf(r) = <<keyStateAbsent, keyStateAbsent,
                                 keyStatePresent, keyStateAbsent,
                                 keyStateAbsent>>
            /\ m[1].grid[r] = CRATE =>
                 colorsOf(r) = <<keyStateCorrect, keyStateCorrect,
                                 keyStateCorrect, keyStateAbsent,
                                 keyStateCorrect>>
            /\ m[1].grid[r] = CRANE => colorsOf(r) = allCorrect
       /\ filled(<<SPEED, CRATE>>) => ~m[1].gameOver
       /\ filled(<<SPEED, CRATE, CRANE>>) =>
            /\ m[1].gameOver
            /\ hist # <<>> /\ lastEnded = [s |-> 1, won |-> TRUE, k |-> 3]
            /\ nfail = 0 =>
                 /\ GetTotalScore(db) = 80 + wonScore(earlier)
                 /\ m[1].score = GetTotalScore(db)

\* The third guess, CRANE after SPEED and CRATE, has just been submitted.
C17_Witness ==
  /\ running /\ last[1].msg = "KeyEnter"
  /\ m[1].answer = CRANE /\ filled(<<SPEED, CRATE, CRANE>>)
  /\ Len(db.guess) = 3 /\ m[1].score = 80

\* What doAcceptGuess makes of the evaluated row as the first guess of a
\* game with the evaluated answer.
declared ==
  acceptGuessFinish([newModel EXCEPT !.answer = ev.answer,
                                     !.grid[1] = ev.word,
                                     !.gridCol = numChars],
                    emptyDb, ev.word, TRUE)

\* C18: in a finalized row, position i is Correct if and only if the guess
\* and the answer agree at i; the row is all Correct exactly when the guess
\* is the answer, which is exactly when doAcceptGuess declares a win.
C18_CorrectIffExact ==
  evaluated =>
    /\ \A i \in Cols :
         ev.keyStates[i] = keyStateCorrect <=> ev.word[i] = ev.answer[i]
    /\ ev.keyStates = allCorrect <=> ev.word = ev.answer
    /\ ev.word = ev.answer <=> declared.end = "win"
    /\ declared.end = "win" <=> declared.m.gameOver

\* The E of column 1 is an exact match, and the answer has a second E that
\* no position matches: the wrong-position pass leaves column 1 Correct
\* and marks the A of column 2 Present.
C18_Witness ==
  /\ ev.answer = <<69, 69, 65, 65, 65>> /\ ev.word = <<69, 65, 83, 83, 83>>
  /\ ev.keyStates = <<keyStateCorrect, keyStatePresent, keyStateAbsent,
                      keyStateAbsent, keyStateAbsent>>
  /\ declared.end = "none"

\* The cursor and the cells of the grid.
cells(mm) == [gridRow |-> mm.gridRow, gridCol |-> mm.gridCol, grid |-> mm.grid]

\* C19: Backspace with the cursor in column 0 leaves the cursor and the
\* grid as they are; in a game in progress with the cursor beyond column 0
\* it moves the cursor back by exactly one column, within the same row; a
\* key event carrying a letter with the cursor in column numChars leaves
\* the cursor and every cell of the grid as they are.
C19_EdgeKeysNoOp ==
  running =>
    /\ \A R \in handled(KeyMsg("KeyBackspace", <<>>)) :
         /\ m[1].gridCol = 0 => cells(R.m) = cells(m[1])
         /\ ~m[1].gameOver /\ m[1].gridCol > 0 =>
              cells(R.m) = [cells(m[1]) EXCEPT !.gridCol = @ - 1]
    /\ \A runes \in RuneInputs :
         \A R \in handled(KeyMsg("KeyRunes", runes)) :
           m[1].gridCol = numChars => cells(R.m) = cells(m[1])

\* Backspace was hit on a row in which nothing had been typed.
C19_Witness ==
  /\ inProgress /\ last[1].msg = "KeyBackspace"
  /\ m[1].gridCol = 0 /\ currentRow = zeroWord
  /\ m[1].gridRow = 1

\* The runes a key event is tried with: Latin-1, and two letters beyond it
\* (capital I with dot above, the Kelvin sign).
Runes == 0..255 \cup {304, 8490}

\* The result of session 1 handling a key event carrying the runes rs.
keyed(rs) == Update(m[1], db, KeyMsg("KeyRunes", rs), noInput)

\* C20: in a game in progress with the cursor before column numChars, a key
\* event carrying one rune a-z or A-Z stores its upper-case letter in the
\* cell under the cursor and moves the cursor one column on, touching
\* nothing else of the game; a key event carrying any other rune, or two
\* runes, leaves grid, cursor, key states and gameOver as they are and
\* returns no command; and the cells of the current row before the cursor
\* hold letters A..Z.
C20_LettersOnly ==
  inProgress =>
    /\ m[1].gridCol < numChars =>
         /\ \A r \in Runes :
              IF r \in 65..90 \/ r \in 97..122
                THEN gameView(keyed(<<r>>).m) =
                       [gameView(m[1]) EXCEPT
                          !.grid[m[1].gridRow + 1][m[1].gridCol + 1] =
                             IF r >= 97 THEN r - 32 ELSE r,
                          !.gridCol = @ + 1]
                ELSE /\ gameView(keyed(<<r>>).m) = gameView(m[1])
                     /\ keyed(<<r>>).cmd = "nil"
         /\ \A r, q \in {65, 97, 49} :
              /\ gameView(keyed(<<r, q>>).m) = gameView(m[1])
              /\ keyed(<<r, q>>).cmd = "nil"
    /\ \A i \in 1..m[1].gridCol : currentRow[i] \in 65..90

\* The third row of the game holds CRA, typed on cells that had never
\* been written, and the cursor is in column 3.
C20_Witness ==
  /\ inProgress /\ last[1].msg = "KeyRunes"
  /\ m[1].gridRow = 2 /\ m[1].gridCol = 3
  /\ currentRow = <<67, 82, 65, 0, 0>>

\* C21: while the game is over, Enter and Ctrl+R start a new game (in
\* progress, cursor at row 0 / column 0, key states empty, nothing of the
\* grid shown) without evaluating or persisting a guess, and every other
\* message (letters, Backspace, other keys, the timer, a resize) leaves
\* grid, cursor, key states and gameOver as they are and reaches the store
\* with no call.
C21_GameOverLocked ==
  running /\ m[1].gameOver =>
    \A msg \in Msgs : \A R \in handled(msg) :
      /\ R.db = db /\ R.end = "none"
      /\ callsOf(R, "CreateGame") = {} /\ callsOf(R, "CreateGuess") = {}
      /\ IF msg \in {KeyMsg("KeyEnter", <<>>), KeyMsg("KeyCtrlR", <<>>)}
           THEN /\ ~R.m.gameOver
                /\ R.m.gridRow = 0 /\ R.m.gridCol = 0
                /\ R.m.keyStates = emptyMap
                /\ viewGrid(R.m) = blankGrid
                /\ R.m.gameID = 0
           ELSE /\ gameView(R.m) = gameView(m[1])
                /\ R.io = <<>>

\* A letter was typed after a game won on its first guess, with rows left
\* in the grid: the second row is untouched.
C21_Witness ==
  /\ running /\ m[1].gameOver /\ last[1].msg = "KeyRunes"
  /\ m[1].gridRow = 1 /\ m[1].gridCol = 0
  /\ m[1].grid[1] = m[1].answer /\ m[1].grid[2] = zeroWord

\* Position i of the evaluated row is an exact match.
exact(i) == ev.word[i] = ev.answer[i]

\* The letter of position i occurs in the evaluated answer.
occurs(i) == \E j \in Cols : ev.answer[j] = ev.word[i]

\* The occurrences of the letter of position i in the answer that the exact
\* matches leave, and the positions before i that are no exact match and
\* hold the same letter.
leftOver(i) ==
  count(ev.word[i], ev.answer)
    - Cardinality({j \in Cols : ev.word[j] = ev.word[i] /\ exact(j)})
before(i) ==
  Cardinality({j \in 1..(i-1) : ev.word[j] = ev.word[i] /\ ~exact(j)})

PriorMaps ==
  {emptyMap} \cup [EvalLetters -> keyStateAbsent..keyStateCorrect]

\* The map after the loop of doAcceptGuess folded the evaluated guess into
\* the map ks.
folded(ks) ==
  updateKeyStates(0, ev.word, ev.answer,
                  [keyStates |-> ks, success |-> TRUE]).keyStates

\* The best state of the letter c in the evaluated row as the grid shows
\* it; Unselected when the row does not hold c.
rowBest(c) ==
  IF \E i \in Cols : ev.word[i] = c /\ ev.keyStates[i] = keyStateCorrect
    THEN keyStateCorrect
  ELSE IF \E i \in Cols : ev.word[i] = c /\ ev.keyStates[i] = keyStatePresent
    THEN keyStatePresent
  ELSE IF \E i \in Cols : ev.word[i] = c THEN keyStateAbsent
  ELSE keyStateUnselected

\* C23: for every answer, guess and map before the guess, the map that the
\* loop of doAcceptGuess leaves holds, for every letter, the maximum of
\* the entry before the guess and the best state the letter has in the
\* row as viewGridRowFilled classifies it.
C23_MapFoldsRow ==
  evaluated =>
    \A ks \in PriorMaps :
      LET after == folded(ks)
      IN  \A c \in Letters :
            mapGet(after, c) = max(mapGet(ks, c), rowBest(c))

\* ERASE against CRATE: the grid shows the first E Absent, the loop of
\* doAcceptGuess classifies it Present, and the E key is Correct either
\* way, by the E of column 5.
C23_Witness ==
  /\ evaluated
  /\ ev.answer = CRATE /\ ev.word = ERASE
  /\ ev.keyStates[1] = keyStateAbsent /\ ev.keyStates[5] = keyStateCorrect
  /\ IndexByte(ev.answer, ev.word[1]) # -1
  /\ mapGet(folded(emptyMap), 69) = keyStateCorrect

\* The guesses the store holds for the game g, in insertion order.
RECURSIVE guessesIn(_, _)
guessesIn(rows, g) ==
  IF rows = <<>> THEN <<>>
  ELSE (IF Head(rows).game_id = g THEN <<Head(rows).guess>> ELSE <<>>)
         \o guessesIn(Tail(rows), g)

guessesOf(g) == guessesIn(db.guess, g)

\* The guesses accepted in session 1's game so far: its finalized rows.
acceptedRows == [r \in 1..m[1].gridRow |-> m[1].grid[r]]

persisted ==
  /\ m[1].gridRow > 0 => m[1].gameID \in 1..Len(db.game)
  /\ m[1].gameID # 0 => guessesOf(m[1].gameID) = acceptedRows
  /\ \A g \in 1..Len(db.game) : guessesOf(g) # <<>>

\* C24: the store holds a game row for session 1's game as soon as a guess
\* of it was accepted, the guess rows of that game are the accepted guesses
\* (the finalized rows of the grid) in the order of submission, and every
\* game row has a guess row.
C24_GuessesPersisted == running => persisted

\* The same with no store call having failed.
C24_GuessesPersistedNoFailure == running /\ nfail = 0 => persisted

\* TRACT was accepted as the first guess; CreateGame succeeded, CreateGuess
\* failed: the store holds a game without guesses, the grid one finalized
\* row.
C24_Witness ==
  /\ running
  /\ last[1] = [msg |-> "KeyEnter",
                io |-> <<call("CreateGame", TRUE), call("CreateGuess", FALSE)>>]
  /\ m[1].gridRow = 1 /\ m[1].grid[1] = TRACT /\ m[1].gameID = 1
  /\ Len(db.game) = 1 /\ db.guess = <<>>

\* C25: gridRow is within 0..numGuesses and gridCol within 0..numChars;
\* gridRow = numGuesses only when the game is over; a game that is over has
\* gridCol = 0 and at least one finalized row; hence doAcceptGuess, where
\* it reads grid[gridRow], and doAcceptChar, where it writes
\* grid[gridRow][gridCol], index within the array (0-based: a row below
\* numGuesses, a column below numChars).
C25_CursorInRange ==
  running =>
    /\ m[1].gridRow \in 0..numGuesses /\ m[1].gridCol \in 0..numChars
    /\ m[1].gridRow = numGuesses => m[1].gameOver
    /\ m[1].gameOver => m[1].gridCol = 0 /\ m[1].gridRow >= 1
    /\ guessVerdict(resetStatus(m[1])) \in {"invalid", "accept"} =>
         m[1].gridRow \in 0..(numGuesses - 1)
    /\ \A runes \in RuneInputs :
         \A R \in handled(KeyMsg("KeyRunes", runes)) :
           R.m.grid # m[1].grid =>
             /\ m[1].gridRow \in 0..(numGuesses - 1)
             /\ m[1].gridCol \in 0..(numChars - 1)

\* A letter was typed after a game lost with all its rows finalized: the
\* cursor is at row numGuesses, beyond the last row of the array.
C25_Witness ==
  /\ running /\ last[1].msg = "KeyRunes"
  /\ m[1].gameOver /\ m[1].gridRow = numGuesses /\ m[1].gridCol = 0

\* The messages session 1 can receive in the current state: the timer
\* message only when a tea.Tick is outstanding.
deliverable ==
  {msg \in Msgs : msg.kind = "msgResetStatus" => ticks[1] > 0}

\* C26: statusPending is the number of tea.Tick commands that setStatus
\* returned and whose msgResetStatus has not been delivered yet, hence
\* never negative; a message changes it by +1 when its handler returns a
\* tick (setStatus with a positive duration, which only a rejected guess
\* calls), by -1 when it is the timer message, and not at all otherwise
\* (letters, Backspace, other keys, accepted guesses, wins and losses,
\* restarts, resizes).
C26_PendingCountsTimers ==
  running =>
    /\ m[1].statusPending = ticks[1]
    /\ m[1].statusPending >= 0
    /\ \A msg \in deliverable : \A R \in handled(msg) :
         /\ R.m.statusPending =
              m[1].statusPending
                + (IF R.cmd = "tick" THEN 1 ELSE 0)
                - (IF msg.kind = "msgResetStatus" THEN 1 ELSE 0)
         /\ R.cmd = "tick" <=>
              /\ msg = KeyMsg("KeyEnter", <<>>)
              /\ inProgress /\ ~accepts

\* C26 as worded: only the timer message changes statusPending, every key
\* event and every restart leaves it as it was.
C26_KeysLeavePending ==
  running =>
    /\ m[1].statusPending = ticks[1]
    /\ \A msg \in deliverable : \A R \in handled(msg) :
         R.m.statusPending =
           m[1].statusPending
             - (IF msg.kind = "msgResetStatus" THEN 1 ELSE 0)

\* Ctrl+R restarted the game while a reset timer was outstanding: the
\* count is still one.
C26_Witness ==
  /\ running /\ last[1].msg = "KeyCtrlR"
  /\ ticks[1] = 1 /\ m[1].statusPending = 1
  /\ m[1].gridRow = 0 /\ m[1].gridCol = 0

\* The letters typed into row r (1-based) of the current game.
typedRow(r) == typedAt[1][r]
isTypedWord(w) == \A i \in Cols : isAsciiUpper(w[i])

\* C27: the grid keeps the letters of deleted characters, of earlier rows
\* and of earlier games, and yet (a) every row rendered as finalized shows
\* the five letters typed last at its columns while it was the current row
\* of the current game, evaluated against the answer; (b) the letters left
\* of the cursor are those typed last at their columns; (c) a row reaches
\* the dictionary only when five letters have been typed into it, and what
\* Enter then validates, stores with CreateGuess, folds into the key states
\* and finalizes is that typed word.
C27_NoStaleLetters ==
  running =>
    /\ \A r \in Rows : r - 1 < m[1].gridRow =>
         /\ isTypedWord(typedRow(r))
         /\ m[1].grid[r] = typedRow(r)
         /\ viewGrid(m[1])[r] =
              [kind |-> "filled", keys |-> typedRow(r),
               colors |-> viewGridRowFilled(m[1].answer, typedRow(r))]
    /\ inProgress =>
         LET w == typedRow(m[1].gridRow + 1)
         IN  /\ \A i \in 1..m[1].gridCol :
                   isAsciiUpper(w[i]) /\ m[1].grid[m[1].gridRow + 1][i] = w[i]
             /\ \A R \in handled(KeyMsg("KeyEnter", <<>>)) :
                   IF m[1].gridCol = numChars /\ IsWord(w)
                     THEN /\ isTypedWord(w)
                          /\ \A i \in callsOf(R, "CreateGuess") :
                               R.io[i].ok =>
                                 R.db.guess =
                                   Append(db.guess,
                                          [game_id |-> R.m.gameID, guess |-> w])
                          /\ R.m.gridRow = m[1].gridRow + 1
                          /\ R.m.grid[R.m.gridRow] = w
                          /\ R.m.keyStates =
                               updateKeyStates(0, w, m[1].answer,
                                 [keyStates |-> m[1].keyStates,
                                  success |-> TRUE]).keyStates
                     ELSE /\ R.db = db /\ R.io = <<>>
                          /\ cells(R.m) = cells(m[1])
                          /\ R.m.keyStates = m[1].keyStates

\* The second game was won with TRACE typed over the row TRACT of the
\* first game, which was abandoned; the second row still holds TRACX of
\* the first game, of which nothing was typed in this game.
C27_Witness ==
  /\ running /\ last[1].msg = "KeyEnter" /\ m[1].gameOver
  /\ Len(hist) = 1 /\ hist[1].won
  /\ m[1].gridRow = 1 /\ m[1].grid[1] = TRACE /\ typedRow(1) = TRACE
  /\ m[1].grid[2] = TRACX /\ typedRow(2) = zeroWord
  /\ Len(db.guess) = 2 /\ db.guess[1].guess = TRACT
  /\ db.guess[2] = [game_id |-> 2, guess |-> TRACE]

\* The guess rows of game g in the ledger d, in the order of insertion.
rowsOf(d, g) == guessesIn(d.guess, g)

\* What game g contributes to the result of the GetTotalScore query.
queryScore(d, g) ==
  IF joined(d, g) = {} THEN 0 ELSE 10 * (11 - Cardinality(joined(d, g)))

\* The specified contribution of game g: it is a win iff its last guess
\* equals its answer, and then scores 100 - 10 * (guesses - 1).
specScore(d, g) ==
  LET ws == rowsOf(d, g)
  IN  IF ws # <<>> /\ ws[Len(ws)] = d.game[g].answer
        THEN 100 - 10 * (Len(ws) - 1) ELSE 0

RECURSIVE specTotal(_, _)
specTotal(d, g) == IF g = 0 THEN 0 ELSE specTotal(d, g - 1) + specScore(d, g)

ledgerOk(d) ==
  /\ \A i \in 1..Len(d.guess) : d.guess[i].game_id \in 1..Len(d.game)
  /\ \A g \in 1..Len(d.game) :
       LET ws == rowsOf(d, g)
       IN  /\ Len(ws) <= numGuesses
           /\ \A i \in 1..Len(ws) : ws[i] = d.game[g].answer => i = Len(ws)
           /\ queryScore(d, g) = specScore(d, g)
           /\ specScore(d, g) \in {0, 50, 60, 70, 80, 90, 100}
  /\ GetTotalScore(d) = specTotal(d, Len(d.game))
  /\ (\A g \in 1..Len(d.game) :
        \A i \in 1..Len(d.guess) :
          d.guess[i].game_id = g => d.guess[i].guess # d.game[g].answer)
       => GetTotalScore(d) = 0

\* C28: in the ledger of every reachable state, and in the ledger any
\* Enter key leaves behind from there (store calls failing or not), every
\* guess row belongs to a game row, a game has at most 6 guess rows, only
\* its last one can equal its answer, the query's score of each game is
\* the specified one and lies in {0, 50, ..., 100}, GetTotalScore is the
\* sum of the specified scores, and it is 0 when no guess equals the answer
\* of its game.
C28_LedgerScores ==
  /\ ledgerOk(db)
  /\ running =>
       \A R \in handled(KeyMsg("KeyEnter", <<>>)) : ledgerOk(R.db)

\* The game was won with the sixth guess, all six guesses are in the
\* ledger, and the score is 50.
C28_Witness ==
  /\ running /\ m[1].gameOver /\ m[1].gridRow = numGuesses
  /\ Len(db.game) = 1 /\ Len(rowsOf(db, 1)) = numGuesses
  /\ rowsOf(db, 1)[numGuesses] = TRACE /\ rowsOf(db, 1)[1] = TRACT
  /\ GetTotalScore(db) = 50 /\ specScore(db, 1) = 50

isPrefix(a, b) == Len(a) <= Len(b) /\ \A i \in 1..Len(a) : b[i] = a[i]

\* The sessions whose current game is the game row g, given their structs.
holders(mem, g) == {s \in Sessions : mem[s].gameID = g}

\* Game g of the ledger d has a guess row equal to its answer.
wonIn(d, g) ==
  \E i \in 1..Len(d.guess) :
    d.guess[i].game_id = g /\ d.guess[i].guess = d.game[g].answer

\* C29, for a step of any session in any interleaving of the handlers'
\* store calls: the game and guess tables only grow at the end; a new
\* guess row goes to the game row its session holds, held by no other
\* session, and this game had no guess equal to its answer; a game row is
\* held by at most one session, only by the session that created it, and
\* once given up it is never held again; a restart leaves its session
\* without a game row; the result of GetTotalScore and the score every
\* session shows never decrease.
C29_Step ==
  /\ isPrefix(db.game, db'.game) /\ isPrefix(db.guess, db'.guess)
  /\ GetTotalScore(db') >= GetTotalScore(db)
  /\ \A s \in Sessions : m'[s].score >= m[s].score
  /\ \A i \in (Len(db.guess) + 1)..Len(db'.guess) :
       LET g == db'.guess[i].game_id
       IN  /\ g \in 1..Len(db'.game)
           /\ \E s \in Sessions :
                /\ pc[s] \in MutatingCalls /\ pc'[s] # pc[s]
                /\ holders(m', g) = {s}
                /\ g <= Len(db.game) => holders(m, g) = {s} /\ ~wonIn(db, g)
  /\ \A g \in 1..Len(db'.game) :
       /\ Cardinality(holders(m', g)) <= 1
       /\ g <= Len(db.game) => holders(m', g) \subseteq holders(m, g)
       /\ g > Len(db.game) =>
            \A s \in holders(m', g) : pc[s] = "saveGuess.CreateGame"
  /\ \A s \in Sessions :
       pc[s] = "restart.GetTotalScore" /\ pc'[s] = "run" => m'[s].gameID = 0

C29_AppendOnly == [][C29_Step]_vars

\* The guesses of two sessions interleaved in the guess table: session 2
\* guessed between the two guesses of session 1, which won its game.
C29_Witness ==
  /\ pc = [s \in Sessions |-> "run"]
  /\ m[1].gameID = 1 /\ m[2].gameID = 2 /\ m[1].gameOver /\ ~m[2].gameOver
  /\ db.guess = <<[game_id |-> 1, guess |-> TRACT],
                  [game_id |-> 2, guess |-> TRACT],
                  [game_id |-> 1, guess |-> TRACE]>>
  /\ m[1].score = 90 /\ GetTotalScore(db) = 90

=============================================================================
